---- MODULE Spec2Model ----
(***************************************************************************)
(* lwpr-lite build metadata:                                               *)
(*   - build/scons/util/_pkg_config.py : save_pkg_config_descriptor, the   *)
(*     pkg-config descriptor generator ("generate" in the specification);  *)
(*   - python/setup.py : main, the extension packager.                     *)
(*                                                                         *)
(* Text is modelled up to whitespace: a line is the sequence of its        *)
(* whitespace-separated tokens, a file is the sequence of its lines.       *)
(* Tokens are strings and are built with string concatenation, so that     *)
(* "-I" \o path is the text '-I{}'.format(path) produces.                  *)
(***************************************************************************)
EXTENDS Integers, Sequences, FiniteSets, TLC

VARIABLES
    env,        \* the SCons environment handed to save_pkg_config_descriptor
    libname,    \* its libname argument
    writable,   \* whether open(filename, 'w') can succeed
    fs,         \* the file at filename: [exists, content]
    pre,        \* the file at filename when the last call started
    result,     \* outcome of the last call
    pc,         \* position of the running call (stepwise specification)
    buffer,     \* text handed to outstream.write and not yet flushed
    observed,   \* what a concurrent reader of filename last saw
    argv,       \* sys.argv of setup.py
    packaged    \* what setup.py main handed to setup()

vars == <<env, libname, writable, fs, pre, result, pc, buffer, observed, argv, packaged>>

(***************************************************************************)
(* Bounds                                                                  *)
(***************************************************************************)
\* total number of entries over the five list-valued keys of an environment
MaxItems == 2
\* number of command-line arguments after the script name
MaxArgs == 3

(***************************************************************************)
(* Text helpers                                                            *)
(***************************************************************************)
RECURSIVE Flatten(_)
\* concatenation of a sequence of sequences
Flatten(ss) == IF ss = <<>> THEN <<>> ELSE Head(ss) \o Flatten(Tail(ss))

\* Juxtaposition of two pieces of text with no whitespace between them: the
\* last token of a runs into the first token of b.
Glue(a, b) ==
    IF a = <<>> THEN b
    ELSE IF b = <<>> THEN a
    ELSE SubSeq(a, 1, Len(a) - 1) \o <<a[Len(a)] \o b[1]>> \o Tail(b)

RECURSIVE GlueAll(_)
GlueAll(parts) == IF parts = <<>> THEN <<>> ELSE Glue(Head(parts), GlueAll(Tail(parts)))

\* [ '-X{}'.format(v) for v in values ] joined with ' '
Prefixed(flag, values) == [i \in 1..Len(values) |-> flag \o values[i]]

\* repr() of a Python list of strings, as tokens: ['a', 'b'] is the two tokens
\* "['a'," and "'b']"; [] is the token "[]".
PyListRepr(items) ==
    IF items = <<>> THEN <<"[]">>
    ELSE [i \in 1..Len(items) |->
            (IF i = 1 THEN "['" ELSE "'") \o items[i] \o
            (IF i = Len(items) THEN "']" ELSE "',")]

\* A Python value: kind "str" is a string (items: its tokens), kind "list" a
\* plain list of strings, kind "CLVar" a SCons.Util.CLVar (a list whose str()
\* joins its items with blanks).
Value(kind, items) == [kind |-> kind, items |-> items]
PyString(s) == Value("str", <<s>>)

\* str(v), which Template.substitute applies to every value it inserts
PyStr(v) == IF v.kind = "list" THEN PyListRepr(v.items) ELSE v.items

\* ' '.join(strings)
Join(strings) == Value("str", strings)

(***************************************************************************)
(* pc_template                                                             *)
(***************************************************************************)
L(s) == [t |-> "lit", s |-> s]
V(s) == [t |-> "var", s |-> s]

\* A line is a sequence of words (separated by blanks in the source); a word is
\* a sequence of literals and ${placeholders} written without blanks between.
pc_template == <<
    <<>>,
    << <<L("prefix="), V("lwpr")>> >>,
    << <<L("exec_prefix="), V("prefix")>> >>,
    << <<L("includedir="), V("prefix"), L("/include")>> >>,
    << <<L("libdir="), V("exec_prefix"), L("/lib")>> >>,
    <<>>,
    << <<L("Name:")>>, <<V("libname")>> >>,
    << <<L("Description:")>>, <<L("The")>>, <<L("Dilithium")>>, <<L("Dynamic")>>,
       <<L("Programming")>>, <<L("library")>> >>,
    << <<L("Version:")>>, <<L("0.0.1")>> >>,
    << <<L("Cflags:")>>, <<V("compile_flags")>>, <<V("include_paths")>>,
       <<L("-I"), V("includedir")>> >>,
    << <<L("Libs:")>>, <<V("link_flags")>>, <<V("lib_paths")>>,
       <<L("-L"), V("libdir")>>, <<V("libs")>> >>
>>

\* the placeholders a template refers to
Placeholders(tpl) ==
    UNION { UNION { { tpl[i][j][k].s :
                        k \in { n \in DOMAIN tpl[i][j] : tpl[i][j][n].t = "var" } } :
                    j \in DOMAIN tpl[i] } :
            i \in DOMAIN tpl }

\* Template(tpl).substitute(mapping): every placeholder replaced by str() of its
\* value, the result given as lines of tokens. Defined when every placeholder
\* has a key; otherwise substitute raises KeyError (see MissingPlaceholders).
SubstituteWord(word, mapping) ==
    GlueAll([k \in DOMAIN word |->
                IF word[k].t = "lit" THEN <<word[k].s>> ELSE PyStr(mapping[word[k].s])])

SubstituteLine(line, mapping) ==
    Flatten([j \in DOMAIN line |-> SubstituteWord(line[j], mapping)])

Substitute(tpl, mapping) == [i \in DOMAIN tpl |-> SubstituteLine(tpl[i], mapping)]

MissingPlaceholders(tpl, mapping) == Placeholders(tpl) \ DOMAIN mapping

(***************************************************************************)
(* save_pkg_config_descriptor                                              *)
(***************************************************************************)
\* the keys of env the function reads, in the order it reads them (lines 23-34)
EnvKeysRead == <<"prefix", "lwpr", "CCFLAGS", "CPPPATH", "LINKFLAGS", "LIBS", "LIBPATH">>

EnvKeys == { EnvKeysRead[i] : i \in DOMAIN EnvKeysRead }

\* positions of the keys that env lacks
MissingAt(e) == { i \in DOMAIN EnvKeysRead : EnvKeysRead[i] \notin DOMAIN e }

\* the key the first failing env[...] lookup names
FirstMissingKey(e) ==
    EnvKeysRead[CHOOSE i \in MissingAt(e) : \A j \in MissingAt(e) : i <= j]

\* Mapping with the placeholder lwpr bound to the install prefix
MappingRootFromPrefix(e, name) ==
    ("prefix" :> e["prefix"]) @@
    ("exec_prefix" :> PyString("${exec_prefix}")) @@
    ("includedir" :> PyString("${includedir}")) @@
    ("libdir" :> PyString("${libdir}")) @@
    ("lwpr" :> e["prefix"]) @@
    ("libname" :> PyString(name)) @@
    ("compile_flags" :> e["CCFLAGS"]) @@
    ("include_paths" :> Join(Prefixed("-I", e["CPPPATH"].items))) @@
    ("link_flags" :> e["LINKFLAGS"]) @@
    ("libs" :> Join(Prefixed("-l", e["LIBS"].items) \o Prefixed("-l", <<name>>))) @@
    ("lib_paths" :> Join(Prefixed("-L", e["LIBPATH"].items)))

\* Mapping with exec_prefix, includedir and libdir resolved against the prefix
\* instead of passed through
MappingResolved(e, name) ==
    ("prefix" :> e["prefix"]) @@
    ("exec_prefix" :> e["prefix"]) @@
    ("includedir" :> Value("str", Glue(PyStr(e["prefix"]), <<"/include">>))) @@
    ("libdir" :> Value("str", Glue(PyStr(e["prefix"]), <<"/lib">>))) @@
    ("lwpr" :> e["lwpr"]) @@
    ("libname" :> PyString(name)) @@
    ("compile_flags" :> e["CCFLAGS"]) @@
    ("include_paths" :> Join(Prefixed("-I", e["CPPPATH"].items))) @@
    ("link_flags" :> e["LINKFLAGS"]) @@
    ("libs" :> Join(Prefixed("-l", e["LIBS"].items) \o Prefixed("-l", <<name>>))) @@
    ("lib_paths" :> Join(Prefixed("-L", e["LIBPATH"].items)))

\* Mapping that forgets the key lwpr
MappingNoRoot(e, name) ==
    ("prefix" :> e["prefix"]) @@
    ("exec_prefix" :> PyString("${exec_prefix}")) @@
    ("includedir" :> PyString("${includedir}")) @@
    ("libdir" :> PyString("${libdir}")) @@
    ("libname" :> PyString(name)) @@
    ("compile_flags" :> e["CCFLAGS"]) @@
    ("include_paths" :> Join(Prefixed("-I", e["CPPPATH"].items))) @@
    ("link_flags" :> e["LINKFLAGS"]) @@
    ("libs" :> Join(Prefixed("-l", e["LIBS"].items) \o Prefixed("-l", <<name>>))) @@
    ("lib_paths" :> Join(Prefixed("-L", e["LIBPATH"].items)))

\* lines 21-34: the substitution mapping (e has every key of EnvKeysRead)
Mapping(e, name) ==
    ("prefix" :> e["prefix"]) @@
    ("exec_prefix" :> PyString("${exec_prefix}")) @@
    ("includedir" :> PyString("${includedir}")) @@
    ("libdir" :> PyString("${libdir}")) @@
    ("lwpr" :> e["lwpr"]) @@
    ("libname" :> PyString(name)) @@
    ("compile_flags" :> e["CCFLAGS"]) @@
    ("include_paths" :> Join(Prefixed("-I", e["CPPPATH"].items))) @@
    ("link_flags" :> e["LINKFLAGS"]) @@
    ("libs" :> Join(Prefixed("-l", e["LIBS"].items) \o Prefixed("-l", <<name>>))) @@
    ("lib_paths" :> Join(Prefixed("-L", e["LIBPATH"].items)))

NoFile == [exists |-> FALSE, content |-> <<>>]
File(content) == [exists |-> TRUE, content |-> content]

\* open(filename, 'a'): creates the file or keeps what it holds
OpenForAppend(f) == File(f.content)

\* line 20: open(filename, 'w') creates the file or truncates it to length 0
OpenForWrite(f) == File(<<>>)

\* outstream.write(text) followed by the flush at close
WriteText(f, text) == File(f.content \o text)

NoResult == [status |-> "none", key |-> "", at |-> ""]
Ok == [status |-> "ok", key |-> "", at |-> ""]
IOError == [status |-> "IOError", key |-> "", at |-> "open"]
KeyError(key, at) == [status |-> "KeyError", key |-> key, at |-> at]

\* The whole call, from the file f at filename: the file it leaves and how it ends.
Call(e, name, f, w) ==
    IF ~w THEN [fs |-> f, result |-> IOError]
    ELSE LET opened == OpenForWrite(f) IN
         IF MissingAt(e) # {}
             THEN [fs |-> opened, result |-> KeyError(FirstMissingKey(e), "env")]
         ELSE LET mapping == Mapping(e, name)
                  unbound == MissingPlaceholders(pc_template, mapping) IN
              IF unbound # {}
                  THEN [fs |-> opened,
                        result |-> KeyError(CHOOSE k \in unbound : TRUE, "template")]
              ELSE [fs |-> WriteText(opened, Substitute(pc_template, mapping)),
                    result |-> Ok]

\* the text a successful call writes
Descriptor(e, name) == Substitute(pc_template, Mapping(e, name))

(***************************************************************************)
(* Inputs                                                                  *)
(***************************************************************************)
CompileFlagPool == {"-O2", "-g"}
IncludePathPool == {"/usr/local/include", "/opt/include"}
LinkFlagPool == {"-pthread", "-s"}
LibPathPool == {"/usr/local/lib", "/opt/lib"}
LibPool == {"m", "dl"}
PrefixPool == {"/usr/local", "/opt/lwpr"}
RootPool == {"/opt/lwpr"}
LibNames == {"foo", "lwpr"}
\* the two ways a build script holds a flag list: env.Append(...) keeps a CLVar,
\* Environment(CCFLAGS=[...]) and env['CCFLAGS'] = [...] keep the plain list
FlagKinds == {"CLVar", "list"}

MakeEnv(prefix, lwpr, ccflags, cpppath, linkflags, libs, libpath) ==
    ("prefix" :> PyString(prefix)) @@
    ("lwpr" :> PyString(lwpr)) @@
    ("CCFLAGS" :> ccflags) @@
    ("CPPPATH" :> Value("list", cpppath)) @@
    ("LINKFLAGS" :> linkflags) @@
    ("LIBS" :> Value("list", libs)) @@
    ("LIBPATH" :> Value("list", libpath))

Without(e, key) == [k \in (DOMAIN e) \ {key} |-> e[k]]

\* how many entries each of the five lists gets
Splits == { n \in [1..5 -> 0..MaxItems] : n[1] + n[2] + n[3] + n[4] + n[5] <= MaxItems }

CompleteEnvs ==
    UNION { { MakeEnv(p, r, Value(k1, cc), ip, Value(k2, lf), ls, lp) :
                p \in PrefixPool, r \in RootPool, k1 \in FlagKinds, k2 \in FlagKinds,
                cc \in [1..n[1] -> CompileFlagPool], ip \in [1..n[2] -> IncludePathPool],
                lf \in [1..n[3] -> LinkFlagPool], lp \in [1..n[4] -> LibPathPool],
                ls \in [1..n[5] -> LibPool] } :
            n \in Splits }

\* the environment of the specification's concrete scenario, with the internal
\* package root added; kind is how the two flag lists are held
ScenarioWithRoot(kind) ==
    MakeEnv("/usr/local", "/usr/local", Value(kind, <<"-O2">>), <<"/usr/local/include">>,
            Value(kind, <<>>), <<"m">>, <<"/usr/local/lib">>)

\* the same as the specification writes it: six keys, no internal package root
Scenario(kind) == Without(ScenarioWithRoot(kind), "lwpr")

ScenarioEnvs == { ScenarioWithRoot(k) : k \in FlagKinds } \cup { Scenario(k) : k \in FlagKinds }

\* complete environments, and environments that lack one key
InputEnvs ==
    CompleteEnvs \cup ScenarioEnvs \cup
    { Without(e, k) : e \in CompleteEnvs, k \in EnvKeys }

Stale == << <<"stale">>, <<"Libs:", "-lold">> >>

NotRead == [during |-> "never", file |-> NoFile]
NoModule == [name |-> "", language |-> "", sources |-> <<>>, library_dirs |-> <<>>,
             runtime_library_dirs |-> <<>>, libraries |-> <<>>, include_dirs |-> <<>>]
NotPackaged == [done |-> FALSE, debug_mode |-> FALSE, libname |-> "", module |-> NoModule]

InitGenerator ==
    /\ libname \in LibNames
    /\ writable \in BOOLEAN
    /\ fs \in {NoFile, File(Stale)}
    /\ pre = fs
    /\ result = NoResult
    /\ pc = "idle"
    /\ buffer = <<>>
    /\ observed = NotRead

Init ==
    /\ env \in InputEnvs
    /\ InitGenerator
    /\ argv = <<"setup.py">>
    /\ packaged = NotPackaged

(***************************************************************************)
(* Sequential specification: the build system calls the generator, one     *)
(* call after the other, with the same arguments.                          *)
(***************************************************************************)
save_pkg_config_descriptor ==
    /\ pc = "idle"
    /\ LET c == Call(env, libname, fs, writable) IN
        /\ fs' = c.fs
        /\ result' = c.result
    /\ pre' = fs
    /\ UNCHANGED <<env, libname, writable, pc, buffer, observed, argv, packaged>>

Next == save_pkg_config_descriptor

Spec == Init /\ [][Next]_vars

(***************************************************************************)
(* Reading a descriptor                                                    *)
(***************************************************************************)
Called == result # NoResult

\* where the skeleton puts the assignment name=... and the field Name: ...
AssignmentLine(name) ==
    CHOOSE i \in DOMAIN pc_template :
        pc_template[i] # <<>> /\ pc_template[i][1][1] = L(name \o "=")

FieldLine(name) ==
    CHOOSE i \in DOMAIN pc_template :
        pc_template[i] # <<>> /\ pc_template[i][1] = <<L(name \o ":")>>

\* line i of file f is the given tokens
HasLine(f, i, tokens) == f.exists /\ i \in DOMAIN f.content /\ f.content[i] = tokens

\* the file holds the assignment name=value, value a single token
Assigns(f, name, value) == HasLine(f, AssignmentLine(name), <<name \o "=" \o value>>)

\* the file's field Name: has exactly these tokens as its value
Field(f, name, tokens) == HasLine(f, FieldLine(name), <<name \o ":">> \o tokens)

\* the string an environment holds under a string-valued key
StringOf(e, key) == e[key].items[1]

Complete(e) == EnvKeys \subseteq DOMAIN e

(***************************************************************************)
(* Claims checked under Spec                                               *)
(***************************************************************************)

\* C1 (as claimed): a call on an environment that lacks a required key ends in
\* a missing-key error naming it and leaves the file at filename as it was
\* before the call: absent if it was absent, its old content otherwise.
C1_MissingKeyLeavesFileUntouched ==
    (Called /\ writable /\ ~Complete(env)) =>
        /\ result = KeyError(FirstMissingKey(env), "env")
        /\ fs = pre

\* C2 (as claimed): the prefix= assignment of a written descriptor has the
\* environment's prefix entry as its value.
C2_PrefixIsInstallPrefix ==
    result = Ok => Assigns(fs, "prefix", StringOf(env, "prefix"))

\* C2 (amended): the prefix= assignment of a written descriptor has the
\* environment's lwpr entry (the internal package root) as its value.
C2_PrefixIsPackageRoot ==
    result = Ok => Assigns(fs, "prefix", StringOf(env, "lwpr"))

C2_Witness ==
    /\ result = Ok
    /\ StringOf(env, "prefix") # StringOf(env, "lwpr")
    /\ Assigns(fs, "prefix", "/opt/lwpr")

\* C3 (as claimed): the exec_prefix=, includedir= and libdir= assignments of a
\* written descriptor have the literal tokens ${exec_prefix}, ${includedir} and
\* ${libdir} as their values.
C3_AssignmentsAreDeferredTokens ==
    result = Ok =>
        /\ Assigns(fs, "exec_prefix", "${exec_prefix}")
        /\ Assigns(fs, "includedir", "${includedir}")
        /\ Assigns(fs, "libdir", "${libdir}")

\* C3 (amended): in a written descriptor exec_prefix= is the environment's
\* prefix, includedir= is that prefix followed by /include, and libdir= is the
\* unresolved text ${exec_prefix}/lib; the tokens ${includedir} and ${libdir}
\* stay unresolved where the skeleton uses them, as -I${includedir} at the end
\* of Cflags: and as -L${libdir} in Libs:.
C3_DeferredTokensPassThrough ==
    result = Ok =>
        /\ Assigns(fs, "exec_prefix", StringOf(env, "prefix"))
        /\ Assigns(fs, "includedir", StringOf(env, "prefix") \o "/include")
        /\ Assigns(fs, "libdir", "${exec_prefix}/lib")
        /\ LET cflags == fs.content[FieldLine("Cflags")]
               libs == fs.content[FieldLine("Libs")]
           IN /\ cflags[Len(cflags)] = "-I${includedir}"
              /\ \E i \in DOMAIN libs : libs[i] = "-L${libdir}"

C3_Witness ==
    /\ result = Ok
    /\ Assigns(fs, "exec_prefix", "/usr/local")
    /\ Assigns(fs, "includedir", "/usr/local/include")
    /\ Assigns(fs, "libdir", "${exec_prefix}/lib")

\* C5 (as claimed): for the six-key scenario environment and library name foo
\* the descriptor's Cflags: value is -O2 -I/usr/local/include -I${includedir}
\* and its Libs: value is -L/usr/local/lib -L${libdir} -lm -lfoo.
C5_Scenario ==
    (Called /\ writable /\ libname = "foo" /\ env \in { Scenario(k) : k \in FlagKinds }) =>
        /\ Field(fs, "Cflags", <<"-O2", "-I/usr/local/include", "-I${includedir}">>)
        /\ Field(fs, "Libs", <<"-L/usr/local/lib", "-L${libdir}", "-lm", "-lfoo">>)

\* C6 (as claimed): the tokens of Libs: are the link flags in input order, one
\* -L<path> per library search path in input order, -L${libdir}, one -l<name>
\* per linked library in input order, and last -l<library name>.
C6_LibsTokens ==
    result = Ok =>
        Field(fs, "Libs",
              env["LINKFLAGS"].items \o Prefixed("-L", env["LIBPATH"].items) \o
              <<"-L${libdir}">> \o Prefixed("-l", env["LIBS"].items) \o
              <<"-l" \o libname>>)

\* C7 (as claimed): the tokens of Cflags: are the compile flags in input order,
\* one -I<path> per include search path in input order, and last -I${includedir}.
C7_CflagsTokens ==
    result = Ok =>
        Field(fs, "Cflags",
              env["CCFLAGS"].items \o Prefixed("-I", env["CPPPATH"].items) \o
              <<"-I${includedir}">>)

\* The token order C6 and C7 describe is the order the code produces whenever
\* both flag lists are held as CLVar (or as strings): only str() of a plain
\* list departs from it.
FlagOrderWithCLVar ==
    (result = Ok /\ env["CCFLAGS"].kind = "CLVar" /\ env["LINKFLAGS"].kind = "CLVar") =>
        /\ Field(fs, "Cflags",
                 env["CCFLAGS"].items \o Prefixed("-I", env["CPPPATH"].items) \o
                 <<"-I${includedir}">>)
        /\ Field(fs, "Libs",
                 env["LINKFLAGS"].items \o Prefixed("-L", env["LIBPATH"].items) \o
                 <<"-L${libdir}">> \o Prefixed("-l", env["LIBS"].items) \o
                 <<"-l" \o libname>>)

\* C8: after every successful call the file holds exactly the descriptor of
\* (environment, library name), whatever it held before; so a second call
\* with the same arguments leaves the same bytes as the first.
C8_Idempotent ==
    result = Ok => fs = File(Descriptor(env, libname))

\* a second successful call, started on the file the first one left
C8_Witness ==
    /\ result = Ok
    /\ pre = File(Descriptor(env, libname))
    /\ fs = pre

\* C10: every placeholder of the skeleton has a key in the mapping built from
\* a complete environment; no call fails in the render step, and a call fails
\* only when the environment lacks a key or the file cannot be opened.
C10_NoUnboundPlaceholder ==
    /\ Complete(env) => MissingPlaceholders(pc_template, Mapping(env, libname)) = {}
    /\ Called => result.at # "template"
    /\ (Called /\ result # Ok) => (~Complete(env) \/ ~writable)

C10_Witness ==
    /\ Complete(env)
    /\ result = Ok
    /\ Placeholders(pc_template) = DOMAIN Mapping(env, libname)

(***************************************************************************)
(* Stepwise specification: one call of save_pkg_config_descriptor, taken   *)
(* statement by statement, beside a process that reads the file.           *)
(***************************************************************************)
StepEnvs ==
    { ScenarioWithRoot(k) : k \in FlagKinds } \cup
    { Without(ScenarioWithRoot(k), key) : k \in FlagKinds, key \in EnvKeys }

InitSteps ==
    /\ env \in StepEnvs
    /\ InitGenerator
    /\ argv = <<"setup.py">>
    /\ packaged = NotPackaged

\* line 20: with open(filename, 'w') as outstream
Open ==
    /\ pc = "idle"
    /\ pre' = fs
    /\ IF writable
         THEN /\ fs' = OpenForWrite(fs)
              /\ pc' = "opened"
              /\ UNCHANGED result
         ELSE /\ result' = IOError
              /\ pc' = "done"
              /\ UNCHANGED fs
    /\ UNCHANGED <<env, libname, writable, buffer, observed, argv, packaged>>

\* lines 21-34: a failing env[...] leaves the with block, which closes the file
BuildMapping ==
    /\ pc = "opened"
    /\ IF MissingAt(env) # {}
         THEN /\ result' = KeyError(FirstMissingKey(env), "env")
              /\ pc' = "done"
         ELSE /\ pc' = "mapped"
              /\ UNCHANGED result
    /\ UNCHANGED <<env, libname, writable, fs, pre, buffer, observed, argv, packaged>>

\* lines 35-36: outstream.write(pc.substitute(mapping)). The text goes to the
\* stream's buffer; the stream passes it on to the file at once when it does
\* not fit the buffer, and otherwise when it is closed.
Write ==
    /\ pc = "mapped"
    /\ LET mapping == Mapping(env, libname)
           unbound == MissingPlaceholders(pc_template, mapping) IN
        IF unbound # {}
          THEN /\ result' = KeyError(CHOOSE k \in unbound : TRUE, "template")
               /\ pc' = "done"
               /\ UNCHANGED <<fs, buffer>>
          ELSE /\ \E fits \in BOOLEAN :
                    IF fits
                      THEN buffer' = Substitute(pc_template, mapping) /\ UNCHANGED fs
                      ELSE buffer' = <<>> /\
                           fs' = WriteText(fs, Substitute(pc_template, mapping))
               /\ pc' = "written"
               /\ UNCHANGED result
    /\ UNCHANGED <<env, libname, writable, pre, observed, argv, packaged>>

\* end of the with block: flush and close
Close ==
    /\ pc = "written"
    /\ fs' = WriteText(fs, buffer)
    /\ buffer' = <<>>
    /\ result' = Ok
    /\ pc' = "done"
    /\ UNCHANGED <<env, libname, writable, pre, observed, argv, packaged>>

\* another process reads the file at filename
Read ==
    /\ observed' = [during |-> pc, file |-> fs]
    /\ UNCHANGED <<env, libname, writable, fs, pre, result, pc, buffer, argv, packaged>>

NextSteps == Open \/ BuildMapping \/ Write \/ Close \/ Read

SpecSteps == InitSteps /\ [][NextSteps]_vars

\* the statements, taken one by one, end as the whole call does
StepsAgreeWithCall ==
    pc = "done" => [fs |-> fs, result |-> result] = Call(env, libname, pre, writable)

\* C4 (as claimed): a process that reads the file while a call on a complete
\* environment is under way sees the file as it was before the call or the
\* complete new descriptor, never an empty or partly written file.
C4_ReaderSeesOldOrNew ==
    (Complete(env) /\ observed.during \in {"opened", "mapped", "written"}) =>
        observed.file \in {pre, File(Descriptor(env, libname))}

(***************************************************************************)
(* python/setup.py                                                         *)
(***************************************************************************)
ArgPool == {"build", "build_ext", "install", "--debug"}

builddir == "<here>/../.build"
src_dir == "<here>/../src"

InitSetup ==
    /\ \E n \in 0..MaxArgs : \E args \in [1..n -> ArgPool] : argv = <<"setup.py">> \o args
    /\ packaged = NotPackaged
    /\ env = ScenarioWithRoot("CLVar")
    /\ libname = "lwpr"
    /\ writable = TRUE
    /\ fs = NoFile
    /\ pre = NoFile
    /\ result = NoResult
    /\ pc = "idle"
    /\ buffer = <<>>
    /\ observed = NotRead

\* lines 30-50 and the module handed to setup() at line 107
main ==
    /\ ~packaged.done
    /\ LET debug_mode == \E i \in DOMAIN argv : argv[i] = "--debug"
           name == IF debug_mode THEN "lwpr-debug" ELSE "lwpr"
           module == [name |-> "lwpr",
                      language |-> "c",
                      sources |-> <<"src/lwprmodule.c">>,
                      library_dirs |-> <<builddir>>,
                      runtime_library_dirs |-> <<builddir>>,
                      libraries |-> <<"lwpr">>,
                      include_dirs |-> <<src_dir>>]
       IN packaged' = [done |-> TRUE, debug_mode |-> debug_mode,
                       libname |-> name, module |-> module]
    /\ UNCHANGED <<env, libname, writable, fs, pre, result, pc, buffer, observed, argv>>

NextSetup == main

SpecSetup == InitSetup /\ [][NextSetup]_vars

\* C9 (as claimed): the extension is linked against lwpr-debug when --debug is
\* among the command-line arguments and against lwpr otherwise.
C9_DebugSelectsLibrary ==
    packaged.done =>
        packaged.module.libraries =
            <<IF \E i \in DOMAIN argv : argv[i] = "--debug" THEN "lwpr-debug" ELSE "lwpr">>

====
